---- MODULE Spec2Model ----
\* Readers for BreakDancer and Pindel structural-variant caller output
\* (metasv/breakdancer_reader.py, pindel_reader.py).
\*
\* Text is modelled at character level: a string is a sequence of
\* one-character strings, a file is a sequence of lines, and the Python string
\* methods the readers use (strip, split, startswith, find, int, float) are
\* operators computing what the methods compute.
EXTENDS Integers, Sequences, FiniteSets, TLC

VARIABLES
    lines,          \* file_fd: the lines of the open file, each with its line end
    pos,            \* file_fd: number of lines already consumed
    header_dict,    \* BreakDancerHeader.header_dict
    ret,            \* outcome of the last call made by the consumer
    last_call,      \* the last call made by the consumer: [op, arg]
    routed,         \* header lines handed to parse_header_line by next(), in order
    yielded,        \* records returned by next(), in order
    hd_before,      \* header_dict as it was when next() read its last line
    record_string,  \* the line handed to a record constructor
    rec,            \* the record the constructor produced (or its error)
    interval,       \* what to_sv_interval returned
    vcf,            \* what to_vcf_record returned
    fetch_calls,    \* calls made to reference_handle.fetch, in order
    fields_read     \* indices of `fields` the constructor subscripted

vars == <<lines, pos, header_dict, ret, last_call, routed, yielded, hd_before,
          record_string, rec, interval, vcf, fetch_calls, fields_read>>

-----------------------------------------------------------------------------
\* Bounds of the explored inputs.

MaxLines == 3
MaxPos == 2
MaxLen == 2
MaxEvent == 9
MaxRef == 8
MaxSupp == 1
MaxSamples == 1

-----------------------------------------------------------------------------
\* Values shared by all operations.

None == [kind |-> "None"]
NotCalled == [kind |-> "NotCalled"]
Absent == [kind |-> "Absent"]
Raise(e) == [kind |-> e]
IsError(r) ==
    r.kind \in {"IndexError", "ValueError", "KeyError", "AttributeError",
                "ZeroDivisionError"}

EmptyDict == [k \in {} |-> 0]
DictSet(d, k, v) == [x \in (DOMAIN d) \cup {k} |-> IF x = k THEN v ELSE d[x]]

-----------------------------------------------------------------------------
\* Python string methods.

Whitespace == {" ", "\t", "\n", "\r"}
Digits == {"0", "1", "2", "3", "4", "5", "6", "7", "8", "9"}

DigitVal(c) ==
    CASE c = "0" -> 0 [] c = "1" -> 1 [] c = "2" -> 2 [] c = "3" -> 3
      [] c = "4" -> 4 [] c = "5" -> 5 [] c = "6" -> 6 [] c = "7" -> 7
      [] c = "8" -> 8 [] c = "9" -> 9

DigitChar(d) == <<"0", "1", "2", "3", "4", "5", "6", "7", "8", "9">>[d + 1]

RECURSIVE lstrip(_)
lstrip(s) ==
    IF s # <<>> /\ Head(s) \in Whitespace THEN lstrip(Tail(s)) ELSE s

RECURSIVE rstrip(_)
rstrip(s) ==
    IF s # <<>> /\ s[Len(s)] \in Whitespace
    THEN rstrip(SubSeq(s, 1, Len(s) - 1)) ELSE s

strip(s) == rstrip(lstrip(s))

\* Index of the first character of s that belongs to cs, Len(s) + 1 if none.
FirstIn(s, cs) ==
    IF \E i \in 1..Len(s) : s[i] \in cs
    THEN CHOOSE i \in 1..Len(s) :
            s[i] \in cs /\ \A j \in 1..(i - 1) : s[j] \notin cs
    ELSE Len(s) + 1

\* s.split(): cut at runs of whitespace, no empty tokens.
RECURSIVE split(_)
split(s) ==
    LET t == lstrip(s)
        j == FirstIn(t, Whitespace)
    IN IF t = <<>> THEN <<>>
       ELSE <<SubSeq(t, 1, j - 1)>> \o split(SubSeq(t, j, Len(t)))

\* s.split(sep) for a one-character sep: every sep cuts, empty parts are kept.
RECURSIVE splitOn(_, _)
splitOn(s, sep) ==
    LET j == FirstIn(s, {sep})
    IN IF j > Len(s) THEN <<s>>
       ELSE <<SubSeq(s, 1, j - 1)>> \o splitOn(SubSeq(s, j + 1, Len(s)), sep)

startswith(s, p) == Len(s) >= Len(p) /\ SubSeq(s, 1, Len(p)) = p

\* s.find(p): lowest 0-based index at which p occurs in s, -1 when it does not.
OccursAt(s, p, i) == i + Len(p) <= Len(s) /\ SubSeq(s, i + 1, i + Len(p)) = p

find(s, p) ==
    IF \E i \in 0..Len(s) : OccursAt(s, p, i)
    THEN CHOOSE i \in 0..Len(s) :
            OccursAt(s, p, i) /\ \A j \in 0..(i - 1) : ~OccursAt(s, p, j)
    ELSE -1

\* s.replace(c, ''): drop every occurrence of the character c.
RECURSIVE dropChar(_, _)
dropChar(s, c) ==
    IF s = <<>> THEN <<>>
    ELSE IF Head(s) = c THEN dropChar(Tail(s), c)
    ELSE <<Head(s)>> \o dropChar(Tail(s), c)

AllDigits(s) == s # <<>> /\ \A i \in 1..Len(s) : s[i] \in Digits

Unsigned(tok) ==
    IF tok # <<>> /\ Head(tok) \in {"+", "-"} THEN Tail(tok) ELSE tok

\* int(tok) succeeds on an optional sign followed by at least one digit.
IsInt(tok) == AllDigits(Unsigned(tok))

RECURSIVE natVal(_)
natVal(s) ==
    IF s = <<>> THEN 0
    ELSE 10 * natVal(SubSeq(s, 1, Len(s) - 1)) + DigitVal(s[Len(s)])

int(tok) ==
    IF Head(tok) = "-" THEN 0 - natVal(Unsigned(tok)) ELSE natVal(Unsigned(tok))

\* float(tok) succeeds on an optional sign followed by digits with at most one
\* decimal point and at least one digit.  (Exponents and inf/nan spellings do
\* not occur in the lines explored.)
IsFloat(tok) ==
    LET body == Unsigned(tok)
        parts == splitOn(body, ".")
    IN /\ Len(parts) \in {1, 2}
       /\ \A i \in 1..Len(parts) : parts[i] = <<>> \/ AllDigits(parts[i])
       /\ \E i \in 1..Len(parts) : parts[i] # <<>>

\* str(n), used to write the numbers of the input lines.
RECURSIVE natStr(_)
natStr(n) ==
    IF n < 10 THEN <<DigitChar(n)>>
    ELSE natStr(n \div 10) \o <<DigitChar(n % 10)>>

str(n) == IF n < 0 THEN <<"-">> \o natStr(0 - n) ELSE natStr(n)

abs(n) == IF n < 0 THEN 0 - n ELSE n

\* " ".join(tokens)
RECURSIVE join(_)
join(toks) ==
    IF toks = <<>> THEN <<>>
    ELSE IF Len(toks) = 1 THEN toks[1]
    ELSE toks[1] \o <<" ">> \o join(Tail(toks))

\* fields[i] with Python's 0-based index.
F(fields, i) == fields[i + 1]

-----------------------------------------------------------------------------
\* Tokens of the two file formats.

tDEL == <<"D", "E", "L">>
tINS == <<"I", "N", "S">>
tINV == <<"I", "N", "V">>
tITX == <<"I", "T", "X">>
tCTX == <<"C", "T", "X">>
tUnknown == <<"U", "n", "k", "n", "o", "w", "n">>
tDUPTANDEM == <<"D", "U", "P", ":", "T", "A", "N", "D", "E", "M">>
tBreakDancer == <<"B", "r", "e", "a", "k", "D", "a", "n", "c", "e", "r">>
tPindel == <<"P", "i", "n", "d", "e", "l">>

pSoftware == <<"#", "S", "o", "f", "t", "w", "a", "r", "e", ":">>
pCommand == <<"#", "C", "o", "m", "m", "a", "n", "d", ":">>
pLibrary == <<"#", "L", "i", "b", "r", "a", "r", "y">>
pChr1 == <<"#", "C", "h", "r", "1">>
kSoftware == <<"s", "o", "f", "t", "w", "a", "r", "e">>
kCommand == <<"c", "o", "m", "m", "a", "n", "d">>

\* Variant: inversions taken as convertible.
valid_breakdancer_svs_inv == {tDEL, tINS, tINV}

valid_breakdancer_svs == {tDEL, tINS}
breakdancer_source == {tBreakDancer}

-----------------------------------------------------------------------------
\* BreakDancerHeader

\* A value stored in header_dict: a token, a list of tokens or a nested dict.
StrVal(tok) == [kind |-> "str", str |-> tok, list |-> <<>>, dict |-> EmptyDict]
ListVal(toks) == [kind |-> "list", str |-> <<>>, list |-> toks, dict |-> EmptyDict]
DictVal(d) == [kind |-> "dict", str |-> <<>>, list |-> <<>>, dict |-> d]

\* dict(field.split(":") for field in fields): every element must have exactly
\* two parts, a later key overwrites an earlier one.
RECURSIVE dictOfFields(_, _)
dictOfFields(fields, acc) ==
    IF fields = <<>> THEN [kind |-> "ok", dict |-> acc]
    ELSE LET kv == splitOn(Head(fields), ":")
         IN IF Len(kv) # 2 THEN Raise("ValueError")
            ELSE dictOfFields(Tail(fields), DictSet(acc, kv[1], kv[2]))

\* Variant: a nested line whose sub-fields do not split leaves an empty entry
\* under its key.
parse_header_line_eager(hd, header_line) ==
    IF startswith(header_line, pSoftware)
    THEN LET toks == split(header_line)
         IN IF Len(toks) < 2 THEN [hd |-> hd, out |-> Raise("IndexError")]
            ELSE [hd |-> DictSet(hd, kSoftware, StrVal(F(toks, 1))), out |-> None]
    ELSE IF startswith(header_line, pCommand)
    THEN [hd |-> DictSet(hd, kCommand, ListVal(Tail(split(header_line)))),
          out |-> None]
    ELSE IF ~(startswith(header_line, pLibrary) \/ startswith(header_line, pChr1))
    THEN LET fields == split(SubSeq(header_line, 2, Len(header_line)))
             d == dictOfFields(IF fields = <<>> THEN <<>> ELSE Tail(fields), EmptyDict)
         IN IF fields = <<>> THEN [hd |-> hd, out |-> Raise("IndexError")]
            ELSE IF d.kind # "ok"
            THEN [hd |-> DictSet(hd, F(fields, 0), DictVal(EmptyDict)), out |-> d]
            ELSE [hd |-> DictSet(hd, F(fields, 0), DictVal(d.dict)), out |-> None]
    ELSE [hd |-> hd, out |-> None]

\* parse_header_line: the header_dict after the call and the call's outcome.
parse_header_line(hd, header_line) ==
    IF startswith(header_line, pSoftware)
    THEN LET toks == split(header_line)
         IN IF Len(toks) < 2 THEN [hd |-> hd, out |-> Raise("IndexError")]
            ELSE [hd |-> DictSet(hd, kSoftware, StrVal(F(toks, 1))), out |-> None]
    ELSE IF startswith(header_line, pCommand)
    THEN [hd |-> DictSet(hd, kCommand, ListVal(Tail(split(header_line)))),
          out |-> None]
    ELSE IF ~(startswith(header_line, pLibrary) \/ startswith(header_line, pChr1))
    THEN LET fields == split(SubSeq(header_line, 2, Len(header_line)))
             d == dictOfFields(IF fields = <<>> THEN <<>> ELSE Tail(fields), EmptyDict)
         IN IF d.kind # "ok" THEN [hd |-> hd, out |-> d]
            ELSE IF fields = <<>> THEN [hd |-> hd, out |-> Raise("IndexError")]
            ELSE [hd |-> DictSet(hd, F(fields, 0), DictVal(d.dict)), out |-> None]
    ELSE [hd |-> hd, out |-> None]

-----------------------------------------------------------------------------
\* BreakDancerRecord

\* dict(map(lambda l: (l[0], int(l[1])), (s.split("|") for s in groups)))
RECURSIVE libDict(_, _)
libDict(groups, acc) ==
    IF groups = <<>> THEN [kind |-> "ok", dict |-> acc]
    ELSE LET l == splitOn(Head(groups), "|")
         IN IF Len(l) < 2 THEN Raise("IndexError")
            ELSE IF ~IsInt(l[2]) THEN Raise("ValueError")
            ELSE libDict(Tail(groups), DictSet(acc, l[1], int(l[2])))

BreakDancerRecord(s) ==
    LET fields == split(s)
        n == Len(fields)
    IN IF n < 2 THEN Raise("IndexError")
       ELSE IF ~IsInt(F(fields, 1)) THEN Raise("ValueError")
       ELSE IF n < 5 THEN Raise("IndexError")
       ELSE IF ~IsInt(F(fields, 4)) THEN Raise("ValueError")
       ELSE IF n < 8 THEN Raise("IndexError")
       ELSE IF ~IsInt(F(fields, 7)) THEN Raise("ValueError")
       ELSE IF n < 9 THEN Raise("IndexError")
       ELSE IF ~IsFloat(F(fields, 8)) THEN Raise("ValueError")
       ELSE IF n < 10 THEN Raise("IndexError")
       ELSE IF ~IsInt(F(fields, 9)) THEN Raise("ValueError")
       ELSE IF n < 11 THEN Raise("IndexError")
       ELSE LET lib == libDict(splitOn(F(fields, 10), ":"), EmptyDict)
            IN IF lib.kind # "ok" THEN lib
               ELSE [kind |-> "BreakDancerRecord",
                     chr1 |-> F(fields, 0),
                     pos1 |-> int(F(fields, 1)),
                     ori1 |-> F(fields, 2),
                     chr2 |-> F(fields, 3),
                     pos2 |-> int(F(fields, 4)),
                     ori2 |-> F(fields, 5),
                     sv_type |-> F(fields, 6),
                     sv_len |-> int(F(fields, 7)),
                     supporting_read_pairs |-> int(F(fields, 9)),
                     supporting_reads_pairs_lib |-> lib.dict]

\* The SVInterval built from a constructor call.  Arguments the call does not
\* pass stay Absent; native_sv, the back reference to the record, is left out.
SVInterval(chrom, start, end, name, sv_type, length, sources, cipos, wiggle, gt) ==
    [kind |-> "SVInterval", chrom |-> chrom, start |-> start, end |-> end,
     name |-> name, sv_type |-> sv_type, length |-> length, sources |-> sources,
     cipos |-> cipos, wiggle |-> wiggle, gt |-> gt]

\* Variant: the end of a DEL interval taken from the signed sv_len.
bd_to_sv_interval_signed(self) ==
    IF self.sv_type \notin valid_breakdancer_svs THEN None
    ELSE IF self.sv_type = tDEL
    THEN SVInterval(self.chr1, self.pos1, self.pos1 + self.sv_len,
                    Absent, self.sv_type, self.sv_len, breakdancer_source,
                    <<0, self.pos2 - self.pos1 - self.sv_len>>, Absent, Absent)
    ELSE SVInterval(self.chr1, self.pos1, self.pos1, Absent, tINS, self.sv_len,
                    breakdancer_source, <<0, self.pos2 - self.pos1>>, Absent, Absent)

bd_to_sv_interval(self) ==
    IF self.sv_type \notin valid_breakdancer_svs THEN None
    ELSE IF self.sv_type = tDEL
    THEN SVInterval(self.chr1, self.pos1, self.pos1 + abs(self.sv_len),
                    Absent, self.sv_type, self.sv_len, breakdancer_source,
                    <<0, self.pos2 - self.pos1 - abs(self.sv_len)>>, Absent, Absent)
    ELSE SVInterval(self.chr1, self.pos1, self.pos1, Absent, tINS, self.sv_len,
                    breakdancer_source, <<0, self.pos2 - self.pos1>>, Absent, Absent)

-----------------------------------------------------------------------------
\* Values of the variables an exploration does not use.

NoCall == [op |-> "none", arg |-> <<>>]

FileIdle ==
    /\ lines = <<>> /\ pos = 0
    /\ routed = <<>> /\ yielded = <<>> /\ hd_before = EmptyDict

HeaderIdle == header_dict = EmptyDict

RecordIdle ==
    /\ record_string = <<>> /\ rec = NotCalled
    /\ interval = NotCalled /\ vcf = NotCalled
    /\ fetch_calls = <<>> /\ fields_read = {}

fileVars == <<lines, pos, routed, yielded, hd_before>>
recordVars == <<record_string, rec, interval, vcf, fetch_calls, fields_read>>

-----------------------------------------------------------------------------
\* Header lines handed to BreakDancerHeader.parse_header_line.

w(c) == <<c>>

hSoft1 == pSoftware \o <<" ", "v", "1">>
hSoft2 == pSoftware \o <<" ", "v", "2", " ", "x">>
hSoftBare == pSoftware
hCmd == pCommand \o <<" ", "b", "d", " ", "-", "q">>
hCmdBare == pCommand
hLib == pLibrary \o <<":", "x", " ", "n", ":", "1">>
hChr == pChr1 \o <<"\t", "P", "o", "s", "1">>
hBam == <<"#", "b", "a", "m", " ", "a", ":", "1", " ", "b", ":", "2">>
hBam2 == <<"#", "b", "a", "m", " ", "a", ":", "3", " ", "a", ":", "4">>
hBamNoColon == <<"#", "b", "a", "m", " ", "a", ":", "1", " ", "b">>
hBamTwoColons == <<"#", "b", "a", "m", " ", "a", ":", "1", ":", "2">>
hKeyOnly == <<"#", "r", "l">>
hHash == <<"#">>
hSpaced == <<"#", " ", "r", "l", " ", "m", ":", "5">>
hLowerSoftware == <<"#", "s", "o", "f", "t", "w", "a", "r", "e", " ", "a", ":", "1">>

HeaderLines ==
    {hSoft1, hSoft2, hSoftBare, hCmd, hCmdBare, hLib, hChr, hBam, hBam2,
     hBamNoColon, hBamTwoColons, hKeyOnly, hHash, hSpaced, hLowerSoftware}

\* header.parse_header_line(header_line), called on the header object.
ParseHeaderLine ==
    \E header_line \in HeaderLines :
        LET r == parse_header_line(header_dict, header_line)
        IN /\ header_dict' = r.hd
           /\ ret' = r.out
           /\ last_call' = [op |-> "parse_header_line", arg |-> header_line]
           /\ UNCHANGED <<fileVars, recordVars>>

InitHeader ==
    /\ header_dict = EmptyDict
    /\ ret = NotCalled /\ last_call = NoCall
    /\ FileIdle /\ RecordIdle

NextHeader == ParseHeaderLine

SpecHeader == InitHeader /\ [][NextHeader]_vars

-----------------------------------------------------------------------------
\* One BreakDancer data line: construction and normalisation.

BDTypes == {tDEL, tINS, tINV, tITX, tCTX, tUnknown, <<"d", "e", "l">>}

BDLine(p1, p2, type, len) ==
    join(<<w("1"), str(p1), <<"5", "+", "1", "-">>, w("1"), str(p2),
           <<"0", "+", "5", "-">>, type, str(len), <<"9", "9">>, w("5"),
           <<"n", "A", "|", "2", ":", "t", "B", "|", "1">>,
           <<"0", ".", "5", "6">>>>)

BDLines ==
    {BDLine(p1, p2, type, len) :
        p1 \in (0 - 1)..MaxPos, p2 \in (0 - 1)..MaxPos,
        type \in BDTypes, len \in (0 - MaxLen)..MaxLen}

BDConstruct ==
    /\ rec = NotCalled
    /\ rec' = BreakDancerRecord(record_string)
    /\ last_call' = [op |-> "BreakDancerRecord", arg |-> record_string]
    /\ ret' = NotCalled
    /\ UNCHANGED <<record_string, interval, vcf, fetch_calls, fields_read,
                   fileVars, header_dict>>

BDToSvInterval ==
    /\ rec.kind = "BreakDancerRecord"
    /\ interval' = bd_to_sv_interval(rec)
    /\ last_call' = [op |-> "to_sv_interval", arg |-> record_string]
    /\ ret' = NotCalled
    /\ UNCHANGED <<record_string, rec, vcf, fetch_calls, fields_read,
                   fileVars, header_dict>>

InitBDRecord ==
    /\ record_string \in BDLines
    /\ rec = NotCalled /\ interval = NotCalled /\ vcf = NotCalled
    /\ fetch_calls = <<>> /\ fields_read = {}
    /\ ret = NotCalled /\ last_call = NoCall
    /\ FileIdle /\ HeaderIdle

NextBDRecord == BDConstruct \/ BDToSvInterval

SpecBDRecord == InitBDRecord /\ [][NextBDRecord]_vars

\* C1: a BreakDancer DEL record normalises to start = pos1,
\* end = pos1 + |sv_len|, cipos = (0, pos2 - pos1 - |sv_len|), and the interval
\* keeps the signed sv_len as its length.
C1_DelInterval ==
    (rec.kind = "BreakDancerRecord" /\ rec.sv_type = tDEL
        /\ interval.kind # "NotCalled")
    => /\ interval.kind = "SVInterval"
       /\ interval.start = rec.pos1
       /\ interval.end = rec.pos1 + abs(rec.sv_len)
       /\ interval.end - interval.start = abs(rec.sv_len)
       /\ interval.cipos[1] = 0
       /\ interval.cipos[2] = rec.pos2 - rec.pos1 - abs(rec.sv_len)
       /\ interval.length = rec.sv_len
       /\ rec.pos1 = int(F(split(record_string), 1))
       /\ rec.sv_len = int(F(split(record_string), 7))

C1_Witness ==
    /\ rec.kind = "BreakDancerRecord" /\ rec.sv_type = tDEL
    /\ rec.sv_len < 0 /\ rec.pos2 > rec.pos1
    /\ interval.kind = "SVInterval"

\* C2: to_sv_interval returns None, raises nothing and leaves the record as it
\* was for every sv_type other than DEL and INS, and returns an interval for
\* DEL and INS.
C2_OnlyDelIns ==
    [][(last_call'.op = "to_sv_interval")
        => /\ rec' = rec
           /\ (rec.sv_type \notin {tDEL, tINS} => interval' = None)
           /\ (rec.sv_type \in {tDEL, tINS} => interval'.kind = "SVInterval")]_vars

C2_Witness ==
    /\ rec.kind = "BreakDancerRecord" /\ rec.sv_type = tCTX
    /\ last_call.op = "to_sv_interval" /\ interval = None

\* C10: a parse_header_line call changes at most one key of header_dict, the
\* key the line's form names; ignored lines and failing calls change nothing,
\* and no stored entry is dropped.
C10_HeaderKey(line) ==
    IF startswith(line, pSoftware) THEN kSoftware
    ELSE IF startswith(line, pCommand) THEN kCommand
    ELSE Head(split(Tail(line)))

C10_Changed ==
    {k \in (DOMAIN header_dict) \cup (DOMAIN header_dict') :
        IF k \in DOMAIN header_dict /\ k \in DOMAIN header_dict'
        THEN header_dict[k] # header_dict'[k] ELSE TRUE}

C10_OneKey ==
    [][(last_call'.op = "parse_header_line")
        => LET line == last_call'.arg
           IN /\ Cardinality(C10_Changed) <= 1
              /\ DOMAIN header_dict \subseteq DOMAIN header_dict'
              /\ (C10_Changed # {} => C10_Changed = {C10_HeaderKey(line)})
              /\ (startswith(line, pLibrary) \/ startswith(line, pChr1)
                    => header_dict' = header_dict)
              /\ (IsError(ret') => header_dict' = header_dict)]_vars

C10_Witness ==
    /\ last_call.op = "parse_header_line" /\ last_call.arg = hBamNoColon
    /\ ret.kind = "ValueError"
    /\ kSoftware \in DOMAIN header_dict
    /\ <<"b", "a", "m">> \in DOMAIN header_dict

-----------------------------------------------------------------------------
\* BreakDancerReader

StopIteration == [kind |-> "StopIteration"]

\* Variant: the last line of the file is never read.
RECURSIVE bd_next_early(_, _, _)
bd_next_early(p, hd, rt) ==
    IF p + 1 >= Len(lines)
    THEN [pos |-> p, hd |-> hd, routed |-> rt, out |-> StopIteration,
          hd_before |-> hd]
    ELSE LET line == lines[p + 1]
         IN IF line[1] # "#"
            THEN [pos |-> p + 1, hd |-> hd, routed |-> rt,
                  out |-> BreakDancerRecord(strip(line)), hd_before |-> hd]
            ELSE LET r == parse_header_line(hd, strip(line))
                 IN IF IsError(r.out)
                    THEN [pos |-> p + 1, hd |-> r.hd,
                          routed |-> Append(rt, strip(line)),
                          out |-> r.out, hd_before |-> hd]
                    ELSE bd_next_early(p + 1, r.hd, Append(rt, strip(line)))

\* Variant: a data line the record parser rejects is skipped.
RECURSIVE bd_next_skip(_, _, _)
bd_next_skip(p, hd, rt) ==
    IF p >= Len(lines)
    THEN [pos |-> p, hd |-> hd, routed |-> rt, out |-> StopIteration,
          hd_before |-> hd]
    ELSE LET line == lines[p + 1]
         IN IF line[1] # "#"
            THEN IF IsError(BreakDancerRecord(strip(line)))
                 THEN bd_next_skip(p + 1, hd, rt)
                 ELSE [pos |-> p + 1, hd |-> hd, routed |-> rt,
                       out |-> BreakDancerRecord(strip(line)), hd_before |-> hd]
            ELSE LET r == parse_header_line(hd, strip(line))
                 IN IF IsError(r.out)
                    THEN [pos |-> p + 1, hd |-> r.hd,
                          routed |-> Append(rt, strip(line)),
                          out |-> r.out, hd_before |-> hd]
                    ELSE bd_next_skip(p + 1, r.hd, Append(rt, strip(line)))

\* BreakDancerReader.next from file position p: the lines are read one by one,
\* header lines go to parse_header_line, the first other line is parsed and
\* returned; an exception of either parser or the end of the file ends the call.
RECURSIVE bd_next(_, _, _)
bd_next(p, hd, rt) ==
    IF p >= Len(lines)
    THEN [pos |-> p, hd |-> hd, routed |-> rt, out |-> StopIteration,
          hd_before |-> hd]
    ELSE LET line == lines[p + 1]
         IN IF line[1] # "#"
            THEN [pos |-> p + 1, hd |-> hd, routed |-> rt,
                  out |-> BreakDancerRecord(strip(line)), hd_before |-> hd]
            ELSE LET r == parse_header_line(hd, strip(line))
                 IN IF IsError(r.out)
                    THEN [pos |-> p + 1, hd |-> r.hd,
                          routed |-> Append(rt, strip(line)),
                          out |-> r.out, hd_before |-> hd]
                    ELSE bd_next(p + 1, r.hd, Append(rt, strip(line)))

nl(s) == s \o <<"\n">>

BDFields(p1, len, score, cnt, lib) ==
    <<w("1"), p1, <<"5", "+">>, w("1"), w("9"), <<"0", "-">>, tDEL, len,
      score, cnt, lib>>

dGood1 == nl(join(BDFields(w("3"), w("4"), <<"9", "9">>, w("5"), <<"a", "|", "2">>)))
dGood2 ==
    nl(join(<<w("2"), w("7"), <<"5", "+">>, w("2"), w("8"), <<"0", "-">>, tCTX,
              <<"-", "2">>, <<"3", ".", "5">>, w("4"),
              <<"a", "|", "2", ":", "b", "|", "1">>, <<"0", ".", "5">>>>))
dBlank == <<"\n">>
dShort == nl(join(SubSeq(BDFields(w("3"), w("4"), w("9"), w("5"), w("a")), 1, 10)))
dBadPos1 == nl(join(BDFields(w("x"), w("4"), w("9"), w("5"), <<"a", "|", "2">>)))
dBadPos2 ==
    nl(join(<<w("1"), w("3"), <<"5", "+">>, w("1"), <<"9", ".", "0">>,
              <<"0", "-">>, tDEL, w("4"), w("9"), w("5"), <<"a", "|", "2">>>>))
dBadLen == nl(join(BDFields(w("3"), w("-"), w("9"), w("5"), <<"a", "|", "2">>)))
dBadScore == nl(join(BDFields(w("3"), w("4"), <<"h", "i">>, w("5"), <<"a", "|", "2">>)))
dBadCount == nl(join(BDFields(w("3"), w("4"), w("9"), <<"5", ".", "0">>, <<"a", "|", "2">>)))
dNoPipe ==
    nl(join(BDFields(w("3"), w("4"), w("9"), w("5"), <<"a", "|", "2", ":", "b", "1">>)))

BDGoodLines == {dGood1, dGood2, nl(hSoft1), nl(hLib), nl(hBam)}
BDBadData ==
    {dBlank, dShort, dBadPos1, dBadPos2, dBadLen, dBadScore, dBadCount, dNoPipe}
BDFileLines == BDGoodLines \cup BDBadData \cup {nl(hBamNoColon)}

Files(catalog) ==
    UNION {[1..n -> catalog] : n \in 0..MaxLines}

BDNext ==
    LET r == bd_next(pos, header_dict, routed)
    IN /\ pos' = r.pos
       /\ header_dict' = r.hd
       /\ routed' = r.routed
       /\ hd_before' = r.hd_before
       /\ ret' = r.out
       /\ yielded' = IF r.out.kind = "BreakDancerRecord"
                     THEN Append(yielded, r.out) ELSE yielded
       /\ last_call' = [op |-> "next", arg |-> <<>>]
       /\ UNCHANGED <<lines, recordVars>>

InitBDReader ==
    /\ lines \in Files(BDFileLines)
    /\ pos = 0 /\ header_dict = EmptyDict
    /\ routed = <<>> /\ yielded = <<>> /\ hd_before = EmptyDict
    /\ ret = NotCalled /\ last_call = NoCall
    /\ RecordIdle

NextBDReader == BDNext

SpecBDReader == InitBDReader /\ [][NextBDReader]_vars

IsHeaderLine(line) == line[1] = "#"

\* Index of the first line after position p that is not a header line, 0 if
\* there is none.
RECURSIVE NextDataLine(_)
NextDataLine(p) ==
    IF p >= Len(lines) THEN 0
    ELSE IF ~IsHeaderLine(lines[p + 1]) THEN p + 1
    ELSE NextDataLine(p + 1)

Stripped(ls) == [i \in 1..Len(ls) |-> strip(ls[i])]
HeadersIn(a, b) == Stripped(SelectSeq(SubSeq(lines, a, b), IsHeaderLine))
DataIn(a, b) ==
    SelectSeq(SubSeq(lines, a, b), LAMBDA l : ~IsHeaderLine(l))

WellFormedFile == \A i \in 1..Len(lines) : lines[i] \in BDGoodLines

\* C8: over a file of well-formed lines each next() hands the header lines
\* before the next data line to parse_header_line, in order and once each,
\* and returns that data line's record; records come in file order, one per
\* data line; at the end of the file next() raises StopIteration with every
\* header line routed.
C8_RoutesHeaders ==
    [][(WellFormedFile /\ last_call'.op = "next")
        => LET k == NextDataLine(pos)
           IN /\ IF k # 0
                 THEN /\ pos' = k
                      /\ ret' = BreakDancerRecord(strip(lines[k]))
                      /\ ret'.kind = "BreakDancerRecord"
                      /\ routed' = routed \o HeadersIn(pos + 1, k - 1)
                      /\ yielded' = Append(yielded, ret')
                 ELSE /\ pos' = Len(lines)
                      /\ ret' = StopIteration
                      /\ routed' = routed \o HeadersIn(pos + 1, Len(lines))
                      /\ routed' = HeadersIn(1, Len(lines))
                      /\ yielded' = yielded
              /\ routed' = HeadersIn(1, pos')
              /\ Len(yielded') = Len(DataIn(1, pos'))
              /\ \A i \in 1..Len(yielded') :
                    yielded'[i] = BreakDancerRecord(strip(DataIn(1, pos')[i]))]_vars

C8_Witness ==
    /\ WellFormedFile /\ ret = StopIteration
    /\ Len(routed) >= 2 /\ Len(yielded) >= 1
    /\ IsHeaderLine(lines[Len(lines)]) /\ ~IsHeaderLine(lines[2])

\* C9: a line is malformed when it has fewer than 11 fields, a non-integer
\* pos1, pos2, sv_len or read-pair count, a non-numeric score, or a library
\* group without '|'.
Malformed(line) ==
    LET f == split(line)
    IN IF Len(f) < 11 THEN TRUE
       ELSE \/ ~IsInt(F(f, 1)) \/ ~IsInt(F(f, 4)) \/ ~IsInt(F(f, 7))
            \/ ~IsInt(F(f, 9)) \/ ~IsFloat(F(f, 8))
            \/ LET g == splitOn(F(f, 10), ":")
               IN \E i \in 1..Len(g) : find(g[i], <<"|">>) = -1

RECURSIVE HeadersApplied(_, _, _)
HeadersApplied(hd, a, b) ==
    IF a > b THEN hd
    ELSE HeadersApplied(parse_header_line(hd, strip(lines[a])).hd, a + 1, b)

HeadersParse(a, b) ==
    \A i \in a..b : ~IsError(parse_header_line(EmptyDict, strip(lines[i])).out)

\* C9: the next() that reaches a malformed data line raises, has consumed the
\* lines up to and including that line and no other, returns no record, and
\* leaves header_dict as it was before that line was read.
C9_MalformedRaises ==
    [][(last_call'.op = "next")
        => LET k == NextDataLine(pos)
           IN (k # 0 /\ HeadersParse(pos + 1, k - 1) /\ Malformed(lines[k]))
              => /\ IsError(ret')
                 /\ pos' = k
                 /\ yielded' = yielded
                 /\ header_dict' = hd_before'
                 /\ header_dict' = HeadersApplied(header_dict, pos + 1, k - 1)
                 /\ routed' = routed \o HeadersIn(pos + 1, k - 1)]_vars

C9_Witness ==
    /\ last_call.op = "next" /\ IsError(ret)
    /\ pos >= 2 /\ pos < Len(lines)
    /\ lines[pos] \in BDBadData
    /\ lines[pos + 1] \in {dGood1, dGood2}
    /\ header_dict # EmptyDict /\ header_dict = hd_before

-----------------------------------------------------------------------------
\* PindelRecord

tD == <<"D">>
tI == <<"I">>
tLI == <<"L", "I">>
tTD == <<"T", "D">>
tChrID == <<"C", "h", "r", "I", "D">>

pindel_source == {tPindel}
min_coverage == 10
\* het_cutoff = 0.2 and hom_cutoff = 0.8, kept as exact fractions: for counts
\* below 2^52 the double quotient e / (e + r) is below the double 0.2 (0.8)
\* exactly when the rational e / (e + r) is below 1/5 (4/5).
het_cutoff == <<2, 10>>
hom_cutoff == <<8, 10>>

GT_REF == "0/0"
GT_HET == "0/1"
GT_HOM == "1/1"

\* Variant: tandem duplications mapped to DEL.
PINDEL_TO_SV_TYPE_td ==
    [t \in {tI, tD, tLI, tTD, tINV} |->
        IF t = tI \/ t = tLI THEN tINS
        ELSE IF t = tD \/ t = tTD THEN tDEL
        ELSE IF t = tTD THEN tDUPTANDEM
        ELSE tINV]

PINDEL_TO_SV_TYPE ==
    [t \in {tI, tD, tLI, tTD, tINV} |->
        IF t = tI \/ t = tLI THEN tINS
        ELSE IF t = tD THEN tDEL
        ELSE IF t = tTD THEN tDUPTANDEM
        ELSE tINV]

\* a / b < c for a quotient of non-negative integers and a cutoff <<n, d>>.
QuotientBelow(a, b, c) == a * c[2] < c[1] * b

\* reference_handle.fetch(chrom, start, end): the bases of the half-open
\* zero-based span; the reference explored has base p % 4 at position p.
fetch(chrom, start, end) ==
    [i \in 1..(IF end > start THEN end - start ELSE 0) |->
        <<"A", "C", "G", "T">>[((start + i - 1) % 4) + 1]]

\* The subscripts of `fields` the constructor evaluates, in order, each with
\* the conversion applied to the field.
NonLILayout ==
    <<<<2, "int">>, <<4, "ints">>, <<5, "str">>, <<7, "str">>, <<9, "int">>,
      <<10, "int">>, <<12, "int">>, <<13, "int">>, <<15, "int">>, <<16, "int">>,
      <<18, "int">>, <<19, "int">>, <<21, "int">>, <<22, "int">>, <<24, "int">>,
      <<26, "int">>, <<27, "int">>, <<29, "int">>, <<30, "int">>>>

LILayout ==
    <<<<3, "str">>, <<4, "int">>, <<6, "int">>, <<7, "int">>, <<8, "int">>>>

\* for i in xrange(first, len(fields), 5): fields[i], int(fields[i + o]) ...
RECURSIVE SampleLayout(_, _, _)
SampleLayout(i, n, offs) ==
    IF i >= n THEN <<>>
    ELSE <<<<i, "str">>>> \o [j \in 1..Len(offs) |-> <<i + offs[j], "int">>]
         \o SampleLayout(i + 5, n, offs)

Converts(tok, conv) ==
    IF conv = "int" THEN IsInt(tok)
    ELSE IF conv = "ints"
    THEN LET parts == splitOn(tok, ":")
         IN \A i \in 1..Len(parts) : IsInt(parts[i])
    ELSE TRUE

\* Evaluate the subscripts of a layout in order: the first missing field raises
\* IndexError, the first field its conversion rejects raises ValueError.
RECURSIVE ReadFields(_, _, _)
ReadFields(fields, layout, read) ==
    IF layout = <<>> THEN [kind |-> "ok", read |-> read]
    ELSE LET i == Head(layout)[1]
             conv == Head(layout)[2]
         IN IF i >= Len(fields) THEN [kind |-> "IndexError", read |-> read]
            ELSE IF ~Converts(F(fields, i), conv)
            THEN [kind |-> "ValueError", read |-> read \cup {i}]
            ELSE ReadFields(fields, Tail(layout), read \cup {i})

SampleCount(first, n) == IF n > first THEN (n - first + 4) \div 5 ELSE 0

\* Variant: the heterozygous cutoff compared with <= instead of <.
derive_genotype_inclusive(self) ==
    IF self.sv_type = tLI \/ self.sv_type = tI
    THEN [kind |-> "ok",
          gt |-> IF self.up_read_supp + self.down_read_supp > 0
                 THEN GT_HET ELSE GT_REF]
    ELSE LET total_event_reads == self.uniq_read_supp
             total_ref_reads == self.up_uniq_read_supp + self.down_uniq_read_supp
         IN IF total_event_reads + total_ref_reads < min_coverage
            THEN [kind |-> "ok", gt |-> GT_REF]
            ELSE IF total_event_reads + total_ref_reads = 0
            THEN Raise("ZeroDivisionError")
            ELSE IF ~QuotientBelow(het_cutoff[1], het_cutoff[2],
                                   <<total_event_reads,
                                     total_event_reads + total_ref_reads>>)
            THEN [kind |-> "ok", gt |-> GT_REF]
            ELSE IF QuotientBelow(total_event_reads,
                                  total_event_reads + total_ref_reads, hom_cutoff)
            THEN [kind |-> "ok", gt |-> GT_HET]
            ELSE [kind |-> "ok", gt |-> GT_HOM]

\* derive_genotype: the gt it stores, or the error of the division.
derive_genotype(self) ==
    IF self.sv_type = tLI \/ self.sv_type = tI
    THEN [kind |-> "ok",
          gt |-> IF self.up_read_supp + self.down_read_supp > 0
                 THEN GT_HET ELSE GT_REF]
    ELSE LET total_event_reads == self.uniq_read_supp
             total_ref_reads == self.up_uniq_read_supp + self.down_uniq_read_supp
         IN IF total_event_reads + total_ref_reads < min_coverage
            THEN [kind |-> "ok", gt |-> GT_REF]
            ELSE IF total_event_reads + total_ref_reads = 0
            THEN Raise("ZeroDivisionError")
            ELSE IF QuotientBelow(total_event_reads,
                                  total_event_reads + total_ref_reads, het_cutoff)
            THEN [kind |-> "ok", gt |-> GT_REF]
            ELSE IF QuotientBelow(total_event_reads,
                                  total_event_reads + total_ref_reads, hom_cutoff)
            THEN [kind |-> "ok", gt |-> GT_HET]
            ELSE [kind |-> "ok", gt |-> GT_HOM]

WithGenotype(self) ==
    LET g == derive_genotype(self)
    IN IF g.kind # "ok" THEN g
       ELSE [a \in (DOMAIN self) \cup {"gt"} |->
                IF a = "gt" THEN g.gt ELSE self[a]]

NonLIRecord(fields) ==
    LET bp_range == <<int(F(fields, 12)), int(F(fields, 13))>>
        end_pos == int(F(fields, 10))
        colon4 == splitOn(F(fields, 4), ":")
        colon5 == splitOn(F(fields, 5), ":")
    IN [kind |-> "PindelRecord",
        sv_type |-> F(fields, 1),
        sv_len |-> int(F(fields, 2)),
        num_nt_added |-> [i \in 1..Len(colon4) |-> int(colon4[i])],
        nt_added |-> [i \in 1..Len(colon5) |-> dropChar(colon5[i], "\"")],
        chromosome |-> F(fields, 7),
        start_pos |-> int(F(fields, 9)),
        end_pos |-> end_pos,
        bp_range |-> bp_range,
        read_supp |-> int(F(fields, 15)),
        uniq_read_supp |-> int(F(fields, 16)),
        up_read_supp |-> int(F(fields, 18)),
        up_uniq_read_supp |-> int(F(fields, 19)),
        down_read_supp |-> int(F(fields, 21)),
        down_uniq_read_supp |-> int(F(fields, 22)),
        simple_score |-> int(F(fields, 24)),
        sum_mapq |-> int(F(fields, 26)),
        num_sample |-> int(F(fields, 27)),
        num_sample_supp |-> int(F(fields, 29)),
        num_sample_uniq_supp |-> int(F(fields, 30)),
        homlen |-> bp_range[2] - end_pos,
        homseq |-> fetch(F(fields, 7), end_pos - 1, bp_range[2] - 1),
        samples |-> [j \in 1..SampleCount(31, Len(fields)) |->
                        LET i == 31 + 5 * (j - 1)
                        IN [name |-> F(fields, i),
                            ref_support_at_start |-> int(F(fields, i + 1)),
                            ref_support_at_end |-> int(F(fields, i + 2)),
                            plus_support |-> int(F(fields, i + 3)),
                            minus_support |-> int(F(fields, i + 4))]]]

\* Variant: the LI layout given the homology length of the other layout.
LIRecord_homlen(fields) ==
    [kind |-> "PindelRecord",
     sv_type |-> F(fields, 1),
     sv_len |-> 0,
     chromosome |-> F(fields, 3),
     start_pos |-> int(F(fields, 4)),
     up_read_supp |-> int(F(fields, 6)),
     end_pos |-> int(F(fields, 7)),
     down_read_supp |-> int(F(fields, 8)),
     bp_range |-> <<int(F(fields, 4)), int(F(fields, 7))>>,
     homlen |-> int(F(fields, 7)) - int(F(fields, 4)),
     homseq |-> <<>>,
     samples |-> [j \in 1..SampleCount(10, Len(fields)) |->
                     LET i == 10 + 5 * (j - 1)
                     IN [name |-> F(fields, i),
                         plus_support |-> int(F(fields, i + 2)),
                         minus_support |-> int(F(fields, i + 4))]]]

LIRecord(fields) ==
    [kind |-> "PindelRecord",
     sv_type |-> F(fields, 1),
     sv_len |-> 0,
     chromosome |-> F(fields, 3),
     start_pos |-> int(F(fields, 4)),
     up_read_supp |-> int(F(fields, 6)),
     end_pos |-> int(F(fields, 7)),
     down_read_supp |-> int(F(fields, 8)),
     bp_range |-> <<int(F(fields, 4)), int(F(fields, 7))>>,
     homlen |-> 0,
     homseq |-> <<>>,
     samples |-> [j \in 1..SampleCount(10, Len(fields)) |->
                     LET i == 10 + 5 * (j - 1)
                     IN [name |-> F(fields, i),
                         plus_support |-> int(F(fields, i + 2)),
                         minus_support |-> int(F(fields, i + 4))]]]

\* PindelRecord(record_string, reference_handle): the record or the exception,
\* the subscripts of `fields` evaluated and the fetch calls made.
PindelRecord(s) ==
    LET fields == split(s)
        n == Len(fields)
    IN IF n < 2 THEN [out |-> Raise("IndexError"), read |-> {}, fetched |-> <<>>]
       ELSE IF F(fields, 1) # tLI
       THEN LET r == ReadFields(fields, NonLILayout, {1})
            IN IF r.kind # "ok"
               THEN [out |-> Raise(r.kind), read |-> r.read, fetched |-> <<>>]
               ELSE LET call == <<F(fields, 7), int(F(fields, 10)) - 1,
                                  int(F(fields, 13)) - 1>>
                        q == ReadFields(fields,
                                        SampleLayout(31, n, <<1, 2, 3, 4>>), r.read)
                    IN IF q.kind # "ok"
                       THEN [out |-> Raise(q.kind), read |-> q.read,
                             fetched |-> <<call>>]
                       ELSE [out |-> WithGenotype(NonLIRecord(fields)),
                             read |-> q.read, fetched |-> <<call>>]
       ELSE LET r == ReadFields(fields,
                                LILayout \o SampleLayout(10, n, <<2, 4>>), {1})
            IN IF r.kind # "ok"
               THEN [out |-> Raise(r.kind), read |-> r.read, fetched |-> <<>>]
               ELSE [out |-> WithGenotype(LIRecord(fields)), read |-> r.read,
                     fetched |-> <<>>]

pd_to_sv_interval(self) ==
    IF self.sv_type \notin DOMAIN PINDEL_TO_SV_TYPE THEN Raise("KeyError")
    ELSE LET sv_type == PINDEL_TO_SV_TYPE[self.sv_type]
         IN IF sv_type # tINS
            THEN SVInterval(self.chromosome, self.start_pos, self.end_pos, tPindel,
                            sv_type, self.sv_len, pindel_source, Absent, Absent,
                            Absent)
            ELSE SVInterval(self.chromosome, self.start_pos, self.start_pos,
                            tPindel, sv_type, self.sv_len, pindel_source, Absent,
                            100, self.gt)

\* The attributes to_vcf_record reads to fill its info dict.
InfoAttrs ==
    {"sv_len", "sv_type", "num_nt_added", "nt_added", "bp_range", "read_supp",
     "uniq_read_supp", "up_read_supp", "up_uniq_read_supp", "down_read_supp",
     "down_uniq_read_supp", "simple_score", "sum_mapq", "num_sample",
     "num_sample_supp", "num_sample_uniq_supp", "homlen", "homseq"}

\* to_vcf_record(sample): reading an attribute the record does not have raises
\* AttributeError; the type tests compare the raw Pindel subtype.
pd_to_vcf_record(self, sample) ==
    IF ~(InfoAttrs \subseteq DOMAIN self) THEN Raise("AttributeError")
    ELSE IF self.sv_type = tDEL \/ self.sv_type = tINV \/ self.sv_type = tDUPTANDEM
    THEN IF ~({"pos1", "chr1"} \subseteq DOMAIN self) THEN Raise("AttributeError")
         ELSE [kind |-> "Record", CHROM |-> self.chr1, POS |-> self.pos1,
               ALT |-> self.sv_type, END |-> self.pos1 + self.sv_len,
               sample |-> sample]
    ELSE IF self.sv_type = tINS
    THEN IF ~({"pos1", "chr1"} \subseteq DOMAIN self) THEN Raise("AttributeError")
         ELSE [kind |-> "Record", CHROM |-> self.chr1, POS |-> self.pos1,
               ALT |-> self.sv_type, END |-> self.pos1, sample |-> sample]
    ELSE None

-----------------------------------------------------------------------------
\* One Pindel data line: construction, normalisation and VCF conversion.

tNT == <<"N", "T">>
tBP == <<"B", "P">>
tBPRange == <<"B", "P", "_", "r", "a", "n", "g", "e">>
tSupports == <<"S", "u", "p", "p", "o", "r", "t", "s">>
tS1 == <<"S", "1">>
tSumMs == <<"S", "U", "M", "_", "M", "S">>
tNumSup == <<"N", "u", "m", "S", "u", "p", "S", "a", "m", "p", "l", "e", "s">>
tQuotes == <<"\"", "\"">>
tChrom == <<"c", "2", "0">>
tSample == <<"s", "1">>

RECURSIVE Repeat(_, _)
Repeat(toks, n) == IF n = 0 THEN <<>> ELSE toks \o Repeat(toks, n - 1)

\* A line of the non-LI layout: subtype, length, start, homology length,
\* unique event reads, upstream/downstream unique reads, upstream/downstream
\* reads, number of per-sample groups.
PDTokens(type, len, start, hom, e, ur, dr, us, ds, ns) ==
    <<w("0"), type, str(len), tNT, w("0"), tQuotes, tChrID, tChrom, tBP,
      str(start), str(start + len), tBPRange, str(start), str(start + len + hom),
      tSupports, str(e + 1), str(e), w("+"), str(us), str(ur), w("-"), str(ds),
      str(dr), tS1, w("4"), tSumMs, <<"6", "0">>, w("1"), tNumSup, w("1"), w("1")>>
    \o Repeat(<<tSample, w("3"), w("3"), str(us), str(ds)>>, ns)

\* LI lines as the constructor reads them (count at field 8) and as the format
\* description lays them out ("-" at field 8, count at field 9).
LITokens(start, len, us, ds, ns) ==
    <<w("0"), tLI, tChrID, tChrom, str(start), w("+"), str(us), str(start + len),
      str(ds), w("-")>>
    \o Repeat(<<tSample, w("+"), str(us), w("-"), str(ds)>>, ns)

LIDocTokens(start, len, us, ds, ns) ==
    <<w("0"), tLI, tChrID, tChrom, str(start), w("+"), str(us), str(start + len),
      w("-"), str(ds)>>
    \o Repeat(<<tSample, w("+"), str(us), w("-"), str(ds)>>, ns)

PDNonLITypes == {tD, tI, tINV, tTD}

\* Lines that vary the read counts the genotype is derived from.
PDGenotypeLines ==
    {join(PDTokens(type, len, 1, 0, e, ur, dr, 1, 0, 1)) :
        type \in {tD, tINV, tTD}, len \in {MaxLen}, e \in 0..MaxEvent,
        ur \in 0..MaxRef, dr \in 0..MaxSupp}

\* Lines that vary the layout: subtype, coordinates, homology, sample groups.
PDLayoutLines ==
    {join(PDTokens(type, len, start, hom, 4, 3, 3, us, ds, ns)) :
        type \in PDNonLITypes, len \in 0..MaxLen, start \in 1..MaxPos,
        hom \in 0..1, us \in 0..MaxSupp, ds \in 0..MaxSupp, ns \in 0..MaxSamples}

PDLILines ==
    {join(LITokens(start, len, us, ds, ns)) :
        start \in 1..MaxPos, len \in 0..MaxLen, us \in 0..MaxSupp,
        ds \in 0..MaxSupp, ns \in 0..MaxSamples}
    \cup {join(LIDocTokens(start, 1, us, 1, ns)) :
            start \in 1..MaxPos, us \in 0..MaxSupp, ns \in 0..MaxSamples}

\* Lines the constructor rejects: a missing Supports block, a non-integer
\* length, a truncated per-sample group.
PDBadLines ==
    {join(SubSeq(PDTokens(tD, 1, 1, 0, 4, 3, 3, 1, 1, 0), 1, 14)),
     join(PDTokens(tD, 1, 1, 0, 4, 3, 3, 1, 1, 0) \o <<tSample, w("3")>>),
     join(<<w("0"), tD, w("x")>>)}

PDLines == PDGenotypeLines \cup PDLayoutLines \cup PDLILines \cup PDBadLines

PDConstruct ==
    /\ rec = NotCalled
    /\ LET r == PindelRecord(record_string)
       IN /\ rec' = r.out
          /\ fields_read' = r.read
          /\ fetch_calls' = fetch_calls \o r.fetched
    /\ last_call' = [op |-> "PindelRecord", arg |-> record_string]
    /\ ret' = NotCalled
    /\ UNCHANGED <<record_string, interval, vcf, fileVars, header_dict>>

PDToSvInterval ==
    /\ rec.kind = "PindelRecord"
    /\ interval' = pd_to_sv_interval(rec)
    /\ last_call' = [op |-> "to_sv_interval", arg |-> record_string]
    /\ ret' = NotCalled
    /\ UNCHANGED <<record_string, rec, vcf, fetch_calls, fields_read,
                   fileVars, header_dict>>

PDToVcfRecord ==
    /\ rec.kind = "PindelRecord"
    /\ vcf' = pd_to_vcf_record(rec, tSample)
    /\ last_call' = [op |-> "to_vcf_record", arg |-> tSample]
    /\ ret' = NotCalled
    /\ UNCHANGED <<record_string, rec, interval, fetch_calls, fields_read,
                   fileVars, header_dict>>

InitPDRecord ==
    /\ record_string \in PDLines
    /\ rec = NotCalled /\ interval = NotCalled /\ vcf = NotCalled
    /\ fetch_calls = <<>> /\ fields_read = {}
    /\ ret = NotCalled /\ last_call = NoCall
    /\ FileIdle /\ HeaderIdle

NextPDRecord == PDConstruct \/ PDToSvInterval \/ PDToVcfRecord

SpecPDRecord == InitPDRecord /\ [][NextPDRecord]_vars

\* C3: the genotype stored at construction is 0/1 or 0/0 by the sign of
\* up_read_supp + down_read_supp for I and LI; for other subtypes 0/0 below
\* coverage 10 or fraction 0.2, 0/1 from 0.2 up to below 0.8, 1/1 from 0.8;
\* the fraction is never taken over a zero denominator.
C3_Reference(r) ==
    IF r.sv_type \in {tI, tLI}
    THEN (IF r.up_read_supp + r.down_read_supp > 0 THEN "0/1" ELSE "0/0")
    ELSE LET e == r.uniq_read_supp
             cov == r.uniq_read_supp + r.up_uniq_read_supp + r.down_uniq_read_supp
         IN IF cov < 10 THEN "0/0"
            ELSE IF 5 * e < cov THEN "0/0"
            ELSE IF 5 * e < 4 * cov THEN "0/1"
            ELSE "1/1"

C3_Genotype ==
    /\ rec.kind # "ZeroDivisionError"
    /\ rec.kind = "PindelRecord"
        => /\ rec.gt = C3_Reference(rec)
           /\ rec.sv_type \notin {tI, tLI}
                => LET e == rec.uniq_read_supp
                       r == rec.up_uniq_read_supp + rec.down_uniq_read_supp
                   IN /\ (e + r = 9 => rec.gt = "0/0")
                      /\ (e + r >= 10 /\ 5 * e = e + r => rec.gt = "0/1")
                      /\ (e + r >= 10 /\ 5 * e = 4 * (e + r) => rec.gt = "1/1")

C3_Witness ==
    /\ rec.kind = "PindelRecord" /\ rec.sv_type = tD
    /\ rec.uniq_read_supp = 2
    /\ rec.up_uniq_read_supp + rec.down_uniq_read_supp = 8
    /\ rec.gt = "0/1"

\* C4: to_vcf_record gives END = start + sv_len for mapped types DEL, INV and
\* DUP:TANDEM, END = start for INS, and never fails on a constructed record.
C4_VcfEnd ==
    (rec.kind = "PindelRecord" /\ vcf.kind # "NotCalled"
        /\ rec.sv_type \in DOMAIN PINDEL_TO_SV_TYPE)
    => /\ ~IsError(vcf)
       /\ vcf.kind = "Record"
       /\ IF PINDEL_TO_SV_TYPE[rec.sv_type] = tINS
          THEN vcf.END = rec.start_pos
          ELSE vcf.END = rec.start_pos + rec.sv_len

\* C5: an LI record has homlen 0, empty homseq, sv_len 0 and
\* bp_range = (start_pos, end_pos), is built without a fetch and from the LI
\* fields only; any other record is built with one fetch over
\* (chromosome, end_pos - 1, bp_range upper - 1) and has
\* homlen = bp_range upper - end_pos.
C5_SupportsAttrs ==
    {"num_nt_added", "nt_added", "read_supp", "uniq_read_supp",
     "up_uniq_read_supp", "down_uniq_read_supp", "simple_score", "sum_mapq",
     "num_sample", "num_sample_supp", "num_sample_uniq_supp"}

C6_Table(t) ==
    CASE t = tI -> tINS [] t = tD -> tDEL [] t = tLI -> tINS
      [] t = tTD -> tDUPTANDEM [] t = tINV -> tINV

C6_Interval ==
    (rec.kind = "PindelRecord" /\ interval.kind # "NotCalled"
        /\ rec.sv_type \in {tI, tD, tLI, tTD, tINV})
    => /\ interval.kind = "SVInterval"
       /\ interval.sv_type = C6_Table(rec.sv_type)
       /\ interval.start = rec.start_pos
       /\ IF rec.sv_type \in {tI, tLI}
          THEN /\ interval.end = rec.start_pos
               /\ interval.wiggle = 100
               /\ interval.gt = rec.gt
               /\ interval.gt \in {"0/0", "0/1", "1/1"}
          ELSE /\ interval.end = rec.end_pos
               /\ interval.wiggle = Absent
               /\ interval.gt = Absent

C6_Witness ==
    /\ rec.kind = "PindelRecord" /\ rec.sv_type = tLI
    /\ rec.end_pos > rec.start_pos
    /\ interval.kind = "SVInterval" /\ interval.gt = "0/1"

-----------------------------------------------------------------------------
\* PindelReader

\* PindelReader.next from file position p: lines are read until one has
\* "ChrID" at index 1 or later; that line is parsed and returned.
RECURSIVE pd_next(_)
pd_next(p) ==
    IF p >= Len(lines)
    THEN [pos |-> p, out |-> StopIteration, read |-> {}, fetched |-> <<>>]
    ELSE LET line == lines[p + 1]
         IN IF find(line, tChrID) >= 1
            THEN LET r == PindelRecord(strip(line))
                 IN [pos |-> p + 1, out |-> r.out, read |-> r.read,
                     fetched |-> r.fetched]
            ELSE pd_next(p + 1)

pGoodD == nl(join(PDTokens(tD, 2, 1, 1, 8, 1, 1, 1, 1, 1)))
pGoodLI == nl(join(LITokens(2, 1, 1, 0, 1)))
pDocLI == nl(join(LIDocTokens(2, 1, 1, 1, 1)))
pAlignment == nl(<<"A", "C", "G", "T", "\t", "+", "\t", "7">>)
pSeparator == nl(<<"#", "#", "#", "#">>)
pLeadingChrID == nl(join(<<tChrID, tChrom, tBP, w("1"), w("3")>>))
pTruncated == nl(join(SubSeq(PDTokens(tD, 2, 1, 1, 8, 1, 1, 1, 1, 0), 1, 9)))

PDFileLines ==
    {pGoodD, pGoodLI, pDocLI, pAlignment, pSeparator, pLeadingChrID, pTruncated,
     <<"\n">>}

PDNext ==
    LET r == pd_next(pos)
    IN /\ pos' = r.pos
       /\ ret' = r.out
       /\ fields_read' = r.read
       /\ fetch_calls' = fetch_calls \o r.fetched
       /\ yielded' = IF r.out.kind = "PindelRecord"
                     THEN Append(yielded, r.out) ELSE yielded
       /\ last_call' = [op |-> "next", arg |-> <<>>]
       /\ UNCHANGED <<lines, header_dict, routed, hd_before, record_string, rec,
                      interval, vcf>>

InitPDReader ==
    /\ lines \in Files(PDFileLines)
    /\ pos = 0 /\ header_dict = EmptyDict
    /\ routed = <<>> /\ yielded = <<>> /\ hd_before = EmptyDict
    /\ ret = NotCalled /\ last_call = NoCall
    /\ RecordIdle

NextPDReader == PDNext

SpecPDReader == InitPDReader /\ [][NextPDReader]_vars

\* Index of the first line after position p that contains "ChrID" anywhere,
\* 0 if there is none.
RECURSIVE NextChrIDLine(_)
NextChrIDLine(p) ==
    IF p >= Len(lines) THEN 0
    ELSE IF find(lines[p + 1], tChrID) # -1 THEN p + 1
    ELSE NextChrIDLine(p + 1)

\* C7: each next() consumes the lines up to the first one containing "ChrID"
\* at any position and returns what parsing that line gives; with no such line
\* left it raises StopIteration at the end of the file.
C7_ChrIDAnywhere ==
    [][(last_call'.op = "next")
        => LET k == NextChrIDLine(pos)
           IN IF k # 0
              THEN /\ pos' = k
                   /\ ret' = PindelRecord(strip(lines[k])).out
              ELSE /\ pos' = Len(lines)
                   /\ ret' = StopIteration]_vars

====
